---- MODULE Spec2Model ----
(***************************************************************************)
(* Model of train.py of lightning-kitti: the KITTI dataset class (label    *)
(* remapping, train/valid split, sample loading).                          *)
(*                                                                         *)
(* Four specifications share the variables below:                          *)
(*   SpecEncode   KITTI.encode_segmap applied to integer masks             *)
(*   SpecSplit    KITTI.__init__ over a directory listing                  *)
(*   SpecLoad     KITTI.__getitem__ as one call                            *)
(*   SpecWorkers  KITTI.__getitem__ run by interleaved workers             *)
(***************************************************************************)
EXTENDS Integers, Sequences, FiniteSets, TLC

VARIABLES
    labels,      \* the dataset's label space: [void, valid] (self.void_labels, self.valid_labels)
    raw,         \* content of the mask array when encode_segmap was first called
    mask,        \* the mask array, which encode_segmap rewrites in place
    calls,       \* how many times encode_segmap has run on the array
    first,       \* content of the array after the first call
    passes,      \* content of the array after each statement of the last call
    n_img,       \* number of files under data_path/imagesTr
    n_mask,      \* number of files under data_path/labelsTs
    global_rng,  \* state of the process-wide generator of the random module
    trainset,    \* KittiDataModule.trainset
    validset,    \* KittiDataModule.validset
    setups,      \* how many times KittiDataModule.setup has run
    raised,      \* the exception the last setup ended with, or None
    dataset,     \* the KITTI object that __getitem__ is called on (self)
    gray,        \* what np.array(mask) held before encode_segmap, last call of SpecLoad
    item,        \* the (img, mask) the last __getitem__ of SpecLoad returned
    item_idx,    \* and its index
    disk,        \* SpecWorkers: mask file position -> its pixels once opened, converted, resized
    pc,          \* worker -> where it stands in __getitem__
    widx,        \* worker -> the index it was called with
    wimg,        \* worker -> its local img
    arrays,      \* array id -> content of the arrays np.array(mask) allocated
    result       \* worker -> what its last __getitem__ returned

encVars == <<labels, raw, mask, calls, first, passes>>
splitVars == <<n_img, n_mask, global_rng, trainset, validset, setups, raised>>
loadVars == <<gray, item, item_idx>>
workVars == <<disk, pc, widx, wimg, arrays, result>>
vars == <<encVars, splitVars, dataset, loadVars, workVars>>

None == "None"

\* An attribute of the data module that no setup has assigned yet.
Unset == [unset |-> TRUE]

\* ------------------------------------------------------------------ bounds
NPix == 2          \* pixels per mask in SpecEncode
MaxNeg == 2        \* raw pixel values go down to -MaxNeg
MaxPixel == 34     \* and up to MaxPixel, plus 250 and 255
MaxFiles == 11     \* directories hold 0..MaxFiles files, or 100
MaxGlobalState == 3 \* the process-wide generator is in one of the states 0..MaxGlobalState
MaxSetups == 2     \* setup runs at most MaxSetups times
LoadFiles == 5     \* files per directory in SpecLoad and SpecWorkers
MaxStep == 3       \* SpecLoad: neighbouring mask pixels differ by 0..MaxStep gray levels
NWorkers == 2      \* SpecWorkers: workers calling __getitem__

\* -------------------------------------------------------------- label space
DEFAULT_VOID_LABELS == <<0, 1, 2, 3, 4, 5, 6, 9, 10, 14, 15, 16, 18, 29, 30, -1>>
DEFAULT_VALID_LABELS == <<7, 8, 11, 12, 13, 17, 19, 20, 21, 22, 23, 24, 25, 26, 27, 28, 31, 32, 33>>
ignore_index == 250
EXTRA_IDX_THRESHOLD == 18

Range(s) == {s[i] : i \in DOMAIN s}

DefaultLabels == [void |-> DEFAULT_VOID_LABELS, valid |-> DEFAULT_VALID_LABELS]

\* Label spaces a caller can pass to the constructor (void_labels=, valid_labels=).
OverlapLabels == [void |-> <<5, 7>>, valid |-> <<7, 8, 11>>]
Overlap250Labels == [void |-> <<7>>, valid |-> <<7, 250>>]
ShortLabels == [void |-> <<0, 1>>, valid |-> <<7, 8, 11>>]
LongLabels == [void |-> <<0>>, valid |-> [i \in 1..20 |-> i]]
LabelSpaces == {DefaultLabels, OverlapLabels, Overlap250Labels, ShortLabels, LongLabels}

\* dict(zip(valid_labels, range(len(valid_labels)))): a repeated key keeps its last index.
Max(S) == CHOOSE x \in S : \A y \in S : y <= x

class_map(valid) ==
    [v \in Range(valid) |-> Max({i \in DOMAIN valid : valid[i] = v}) - 1]

\* ------------------------------------------------------------ encode_segmap
\* One masked assignment: mask[mask == arg] = val, or mask[mask > arg] = val.
EqStmt(old, new) == [op |-> "eq", arg |-> old, val |-> new]
GtStmt(th, new) == [op |-> "gt", arg |-> th, val |-> new]

Selects(stmt, v) == IF stmt.op = "eq" THEN v = stmt.arg ELSE v > stmt.arg

Assign(stmt, v) == IF Selects(stmt, v) THEN stmt.val ELSE v

\* The array after the statement: every selected element is overwritten.
RECURSIVE Exec(_, _)
Exec(stmt, m) ==
    IF m = <<>> THEN <<>>
    ELSE <<Assign(stmt, Head(m))>> \o Exec(stmt, Tail(m))

VoidPass(ls) == [i \in DOMAIN ls.void |-> EqStmt(ls.void[i], ignore_index)]

ValidPassReversed(ls) ==
    LET cm == class_map(ls.valid)
    IN [i \in DOMAIN ls.valid |->
           EqStmt(ls.valid[Len(ls.valid) + 1 - i], cm[ls.valid[Len(ls.valid) + 1 - i]])]

ValidPass(ls) ==
    LET cm == class_map(ls.valid)
    IN [i \in DOMAIN ls.valid |-> EqStmt(ls.valid[i], cm[ls.valid[i]])]

ExtraPass == <<GtStmt(EXTRA_IDX_THRESHOLD, ignore_index)>>

ValidBeforeVoid(ls) == ValidPass(ls) \o VoidPass(ls) \o ExtraPass

NoVoidPass(ls) == ValidPass(ls) \o ExtraPass

Statements(ls) == VoidPass(ls) \o ValidPass(ls) \o ExtraPass

\* The array after 0, 1, ..., Len(stmts) statements.
RECURSIVE Trace(_, _)
Trace(stmts, m) ==
    IF stmts = <<>> THEN <<m>>
    ELSE <<m>> \o Trace(Tail(stmts), Exec(Head(stmts), m))

Last(s) == s[Len(s)]

encode_segmap(ls, m) == Last(Trace(Statements(ls), m))

\* --------------------------------------------------------------- SpecEncode
Pixels == ((0 - MaxNeg)..MaxPixel) \cup {ignore_index, 255}

\* The default label space is run on every pixel value, the others on their own
\* IDs and on IDs around them.
RawIDs(ls) ==
    IF ls = DefaultLabels THEN Pixels
    ELSE Range(ls.void) \cup Range(ls.valid) \cup {-2, 5, 19, 21, ignore_index}

IdleLoad ==
    /\ gray = None
    /\ item = None
    /\ item_idx = 0

IdleWorkers ==
    /\ disk = <<>>
    /\ pc = <<>>
    /\ widx = <<>>
    /\ wimg = <<>>
    /\ arrays = <<>>
    /\ result = <<>>

IdleSplit ==
    /\ n_img = 0
    /\ n_mask = 0
    /\ global_rng = 0
    /\ trainset = Unset
    /\ validset = Unset
    /\ setups = 0
    /\ raised = None

InitEncode ==
    /\ labels \in LabelSpaces
    /\ raw \in [1..NPix -> RawIDs(labels)]
    /\ IdleSplit
    /\ dataset = Unset
    /\ IdleLoad
    /\ IdleWorkers
    /\ mask = raw
    /\ calls = 0
    /\ first = None
    /\ passes = <<>>

\* encode_segmap(mask) on the array as it stands; the array is rewritten in place.
Encode ==
    /\ calls = 0
    /\ passes' = Trace(Statements(labels), mask)
    /\ mask' = Last(passes')
    /\ first' = mask'
    /\ calls' = 1
    /\ UNCHANGED <<labels, raw, splitVars, dataset, loadVars, workVars>>

\* encode_segmap applied to its own output.
ReEncode ==
    /\ calls = 1
    /\ passes' = Trace(Statements(labels), mask)
    /\ mask' = Last(passes')
    /\ calls' = 2
    /\ UNCHANGED <<labels, raw, first, splitVars, dataset, loadVars, workVars>>

NextEncode == Encode \/ ReEncode

SpecEncode == InitEncode /\ [][NextEncode]_vars

\* ----------------------------------------------------------------- __init__
SEED == 12345

\* A stand-in for the generator behind random.Random: a state, a step, and
\* randbelow(n) scaling the stepped state into 0..n-1.
NextRand(s) == (s * 25173 + 13849) % 65536

randbelow(s, n) == (NextRand(s) * n) \div 65536

\* random.Random(12345): a generator of its own, seeded with the constant.
module_random == global_rng

random_inst == SEED % 65536

\* sample(population, k): k draws without replacement; the drawn slot is refilled
\* with the last element of the pool.
RECURSIVE sample(_, _, _)
sample(s, pool, k) ==
    IF k = 0 THEN <<>>
    ELSE LET m == Len(pool)
             j == randbelow(s, m) + 1
             rest == SubSeq(pool, 1, m - 1)
             pool2 == IF j = m THEN rest ELSE [rest EXCEPT ![j] = pool[m]]
         IN <<pool[j]>> \o sample(NextRand(s), pool2, k - 1)

range(n) == [i \in 1..n |-> i - 1]

\* natsorted(glob(path + '/*')): the directory's files in natural order; a file
\* is named by its directory and its position in that order.
get_filenames(dir, count) == [i \in 1..count |-> <<dir, i - 1>>]

NotIn(idxs, i) == i \notin Range(idxs)

RECURSIVE Filter(_, _)
Filter(s, idxs) ==
    IF s = <<>> THEN <<>>
    ELSE (IF NotIn(idxs, Head(s)) THEN <<Head(s)>> ELSE <<>>) \o Filter(Tail(s), idxs)

TrainIdxsSkipFirst(n_items, idxs) == Filter(SubSeq(range(n_items), 2, n_items), idxs)

\* [idx for idx in range(n_items) if idx not in idxs]
TrainIdxs(n_items, idxs) == Filter(range(n_items), idxs)

RECURSIVE Pick(_, _)
Pick(list, idxs) ==
    IF idxs = <<>> THEN <<>>
    ELSE <<list[Head(idxs) + 1]>> \o Pick(list, Tail(idxs))

IndexError == [error |-> "IndexError"]

\* img_size=(1242, 376): (width, height).
DEFAULT_IMG_SIZE == <<1242, 376>>

\* KittiDataModule.transform: Compose([ToTensor(), Normalize(mean, std)]).
Compose == "Compose(ToTensor, Normalize)"

\* __init__ over a directory of imgs image files and masks mask files: the
\* constructed dataset, or the exception raised.
KITTI_init(imgs, masks, split, img_size, ls, transform) ==
    LET img_list == get_filenames("imagesTr", imgs)
        mask_list == get_filenames("labelsTs", masks)
        n_items == Len(img_list)
        sampled == sample(random_inst, range(n_items), n_items \div 5)
        idxs == IF split = "train" THEN TrainIdxs(n_items, sampled) ELSE sampled
    IN IF \E i \in Range(idxs) : i >= Len(mask_list)
       THEN IndexError
       ELSE [split |-> split,
             img_size |-> img_size,
             transform |-> transform,
             void_labels |-> ls.void,
             valid_labels |-> ls.valid,
             ignore_index |-> ignore_index,
             class_map |-> class_map(ls.valid),
             img_list |-> Pick(img_list, idxs),
             mask_list |-> Pick(mask_list, idxs)]

\* KITTI(data_path, split, ...) over the directory as it stands.
KITTI(split, img_size, ls, transform) ==
    KITTI_init(n_img, n_mask, split, img_size, ls, transform)

\* ---------------------------------------------------------------- SpecSplit
FileCounts == (0..MaxFiles) \cup {100}

IdleEncode ==
    /\ labels = DefaultLabels
    /\ raw = <<>>
    /\ mask = <<>>
    /\ calls = 0
    /\ first = None
    /\ passes = <<>>

InitSplit ==
    /\ n_img \in FileCounts
    /\ n_mask \in {n_img - 1, n_img, n_img + 1} \cap Nat
    /\ global_rng \in 0..MaxGlobalState
    /\ trainset = Unset
    /\ validset = Unset
    /\ setups = 0
    /\ raised = None
    /\ IdleEncode
    /\ dataset = Unset
    /\ IdleLoad
    /\ IdleWorkers

\* KittiDataModule.setup: the train dataset, then the valid dataset; an exception
\* of a constructor ends setup and leaves the attribute not yet assigned as it was.
Setup ==
    /\ setups < MaxSetups
    /\ setups' = setups + 1
    /\ LET t == KITTI("train", DEFAULT_IMG_SIZE, DefaultLabels, Compose)
           v == KITTI("valid", DEFAULT_IMG_SIZE, DefaultLabels, Compose)
       IN IF t = IndexError
          THEN /\ raised' = "IndexError"
               /\ UNCHANGED <<trainset, validset>>
          ELSE /\ trainset' = t
               /\ IF v = IndexError
                  THEN /\ raised' = "IndexError"
                       /\ UNCHANGED validset
                  ELSE /\ raised' = None
                       /\ validset' = v
    /\ UNCHANGED <<n_img, n_mask, global_rng, encVars, dataset, loadVars, workVars>>

\* Other code of the process draws from, or reseeds, the process-wide generator.
UseGlobalRandom ==
    /\ \E s \in 0..MaxGlobalState :
           /\ s # global_rng
           /\ global_rng' = s
    /\ UNCHANGED <<n_img, n_mask, trainset, validset, setups, raised, encVars, dataset, loadVars, workVars>>

NextSplit == Setup \/ UseGlobalRandom

SpecSplit == InitSplit /\ [][NextSplit]_vars

\* ------------------------------------------------------- claims on the split
Positions(list) == {list[i][2] : i \in DOMAIN list}

\* C4: the positions chosen for the train dataset and for the valid dataset
\* built over the same directory are disjoint and together are 0..n-1.
C4_SplitPartitions ==
    (trainset # Unset /\ validset # Unset) =>
        /\ Positions(trainset.img_list) \cap Positions(validset.img_list) = {}
        /\ Positions(trainset.img_list) \cup Positions(validset.img_list) = 0..(n_img - 1)

C4_Witness ==
    /\ trainset # Unset
    /\ validset # Unset
    /\ n_img = 11
    /\ Cardinality(Positions(validset.img_list)) = 2
    /\ Cardinality(Positions(trainset.img_list)) = 9

SplitSizes ==
    /\ validset # Unset =>
           /\ Len(validset.img_list) = n_img \div 5
           /\ Cardinality(Positions(validset.img_list)) = n_img \div 5
           /\ n_img = 100 => Len(validset.img_list) = 20
    /\ trainset # Unset =>
           /\ Len(trainset.img_list) = n_img - (n_img \div 5)
           /\ Cardinality(Positions(trainset.img_list)) = n_img - (n_img \div 5)
           /\ n_img = 100 => Len(trainset.img_list) = 80

\* A later construction selects what the earlier one selected.
SplitRepeats ==
    /\ trainset # Unset => trainset'.img_list = trainset.img_list
    /\ validset # Unset => validset'.img_list = validset.img_list

\* A construction leaves the process-wide generator as it was.
SplitKeepsGlobal == setups' # setups => global_rng' = global_rng

\* C5: the split holds floor(n/5) valid and n - floor(n/5) train positions (20
\* and 80 of 100), every construction selects the same positions whatever the
\* state of the process-wide generator, and no construction changes that state.
C5_SplitDeterministic == [][SplitSizes' /\ SplitRepeats /\ SplitKeepsGlobal]_vars

C5_Witness ==
    /\ setups = 2
    /\ n_img = 100
    /\ trainset # Unset
    /\ validset # Unset
    /\ Len(validset.img_list) = 20
    /\ Len(trainset.img_list) = 80

\* C6: with different numbers of image and mask files, construction ends in a
\* count-mismatch error and no dataset is built.
C6_MismatchIsError ==
    (setups >= 1 /\ n_img # n_mask) =>
        /\ raised = "CountMismatch"
        /\ trainset = Unset
        /\ validset = Unset

\* ---------------------------------------------------- claims on encode_segmap
DenseOrIgnore == (0..18) \cup {250}

\* How many statements of the last call changed the value of element p.
Changes(p) == Cardinality({i \in 1..(Len(passes) - 1) : passes[i][p] # passes[i + 1][p]})

\* C1: with the default label space, every pixel of encode_segmap(mask) lies in
\* 0..18 or equals 250, whatever integers the mask held.
C1_EncodedInRange ==
    (calls >= 1 /\ labels = DefaultLabels) =>
        \A p \in DOMAIN first : first[p] \in DenseOrIgnore

\* C2 as stated: encoding the encoded mask again changes nothing (0..18 and 250
\* are fixed points of the remapping with the default label space).
C2_Idempotent ==
    (calls = 2 /\ labels = DefaultLabels) => mask = first

\* C2 as amended: with the default label space, encoding the encoded mask again
\* keeps a pixel in 0..18 or 250 unchanged exactly when that pixel is 250.
C2_OnlyIgnoreIsFixed ==
    (calls = 2 /\ labels = DefaultLabels) =>
        \A p \in DOMAIN first :
            first[p] \in DenseOrIgnore => ((mask[p] = first[p]) <=> (first[p] = 250))

C2_Witness ==
    /\ calls = 2
    /\ labels = DefaultLabels
    /\ \E p, q \in DOMAIN first : first[p] = 250 /\ first[q] \in 0..18

C9_ValidWins ==
    calls >= 1 =>
        \A p \in DOMAIN raw :
            raw[p] \in Range(labels.void) \cap Range(labels.valid) =>
                first[p] = class_map(labels.valid)[raw[p]]

\* C9 as amended: a raw ID in both voidLabels and validLabels ends as 250 (the
\* void pass overwrites it first), when 250 is not itself a valid label.
C9_VoidWins ==
    calls >= 1 =>
        \A p \in DOMAIN raw :
            (/\ raw[p] \in Range(labels.void) \cap Range(labels.valid)
             /\ 250 \notin Range(labels.valid)) => first[p] = 250

C9_Witness ==
    /\ calls >= 1
    /\ labels = OverlapLabels
    /\ \E p \in DOMAIN raw : raw[p] = 7 /\ first[p] = 250

\* C10: for a label space of K valid labels, the last statement sends every
\* pixel above K-1 to 250 and leaves every pixel in 0..K-1 as it is.
C10_ExtraPassUsesK ==
    calls = 1 =>
        LET K == Len(labels.valid)
            afterValid == passes[Len(passes) - 1]
        IN \A p \in DOMAIN raw :
               mask[p] = IF afterValid[p] > K - 1 THEN 250 ELSE afterValid[p]

\* -------------------------------------------------------------- __getitem__
\* (width, height) of the picture stored at a path, whatever was configured.
NativeSize(path) == <<3 + path[2], 2>>

\* Image.open(path), and Image.open(path).convert('L'): a picture of the file's size.
open(path) == [file |-> path, size |-> NativeSize(path)]

resize_swapped(im, size) == [im EXCEPT !.size = <<size[2], size[1]>>]

\* im.resize(size): the picture resampled to size = (width, height).
resize(im, size) == [im EXCEPT !.size = size]

\* np.array(img): an array of shape (height, width, 3) holding the picture.
np_array_rgb(im) == [shape |-> <<im.size[2], im.size[1], 3>>, of |-> im.file]

\* np.array(mask) of an 'L' picture: a new uint8 array of shape (height, width)
\* holding the picture's pixels px, row by row. Its elements are in 0..255, so
\* the comparison with the void label -1 selects nothing, as on integers.
np_array_gray(im, px) == [shape |-> <<im.size[2], im.size[1]>>, data |-> px]

\* if self.transform: img = self.transform(img). ToTensor puts the channels first.
apply_transform(tr, img) ==
    IF tr = None THEN img
    ELSE [shape |-> <<img.shape[3], img.shape[1], img.shape[2]>>,
          of |-> img.of, by |-> tr]

LabelsOf(ds) == [void |-> ds.void_labels, valid |-> ds.valid_labels]

\* __getitem__(idx), where px are the pixels the mask file gives once opened,
\* converted and resized: the pair (img, mask).
getitem(ds, idx, px) ==
    LET img == np_array_rgb(resize(open(ds.img_list[idx + 1]), ds.img_size))
        m == np_array_gray(resize(open(ds.mask_list[idx + 1]), ds.img_size), px)
        enc == [m EXCEPT !.data = encode_segmap(LabelsOf(ds), m.data)]
    IN <<apply_transform(ds.transform, img), enc>>

\* ----------------------------------------------------------------- SpecLoad
\* Configured resolutions (width, height), small enough to enumerate masks.
ImgSizes == {<<1, 1>>, <<2, 1>>}

Area(size) == size[1] * size[2]

\* What a resized 'L' mask can hold: every gray level at every position,
\* neighbours differing by 0..MaxStep levels (modulo 256).
GrayArrays(n) ==
    {[p \in 1..n |-> (b + (p - 1) * st) % 256] : b \in 0..255, st \in 0..MaxStep}

LoadDirectory ==
    /\ n_img = LoadFiles
    /\ n_mask = LoadFiles
    /\ global_rng = 0
    /\ trainset = Unset
    /\ validset = Unset
    /\ setups = 0
    /\ raised = None

LoadDatasets ==
    {KITTI_init(LoadFiles, LoadFiles, sp, sz, DefaultLabels, tr) :
        sp \in {"train", "valid"}, sz \in ImgSizes, tr \in {None, Compose}}

InitLoad ==
    /\ LoadDirectory
    /\ dataset \in LoadDatasets
    /\ gray = <<>>
    /\ item = <<>>
    /\ item_idx = 0
    /\ IdleEncode
    /\ IdleWorkers

\* One call of __getitem__(idx) on the dataset. A call reads nothing that an
\* earlier call wrote, so each run makes one.
GetItem ==
    /\ item = <<>>
    /\ \E idx \in 0..(Len(dataset.img_list) - 1) :
       \E px \in GrayArrays(Area(dataset.img_size)) :
           /\ gray' = px
           /\ item' = getitem(dataset, idx, px)
           /\ item_idx' = idx
    /\ UNCHANGED <<encVars, splitVars, dataset, workVars>>

NextLoad == GetItem

SpecLoad == InitLoad /\ [][NextLoad]_vars

\* Height and width of a returned image: channels last as an array, first as a tensor.
Spatial(img) ==
    IF Len(img.shape) = 3 /\ img.shape[3] = 3 /\ "by" \notin DOMAIN img
    THEN <<img.shape[1], img.shape[2]>>
    ELSE <<img.shape[2], img.shape[3]>>

\* C7: the mask __getitem__ returns holds only 0..18 or 250, and image and mask
\* both have the configured height and width.
C7_SampleValid ==
    item # <<>> =>
        /\ \A p \in DOMAIN item[2].data : item[2].data[p] \in DenseOrIgnore
        /\ Len(item[2].data) = Area(dataset.img_size)
        /\ item[2].shape = <<dataset.img_size[2], dataset.img_size[1]>>
        /\ Spatial(item[1]) = <<dataset.img_size[2], dataset.img_size[1]>>

C7_Witness ==
    /\ item # <<>>
    /\ dataset.img_size = <<2, 1>>
    /\ NativeSize(dataset.mask_list[item_idx + 1]) # dataset.img_size
    /\ gray = <<255, 2>>
    /\ item[2].data = <<250, 250>>
    /\ item[2].shape = <<1, 2>>

\* -------------------------------------------------------------- SpecWorkers
Workers == 1..NWorkers

Palette == <<7, 2, 20, 40, 0, 33, 250, 18>>

\* The pixels each mask file gives once opened, converted and resized.
DiskContent(size) ==
    [pos \in 0..(LoadFiles - 1) |->
        [p \in 1..Area(size) |-> Palette[((pos + p) % Len(Palette)) + 1]]]

NoArray == [shape |-> <<>>]
NoResult == [idx |-> -1]

WorkerDatasets ==
    {KITTI_init(LoadFiles, LoadFiles, sp, <<2, 1>>, DefaultLabels, Compose) :
        sp \in {"train", "valid"}}

InitWorkers ==
    /\ LoadDirectory
    /\ dataset \in WorkerDatasets
    /\ disk = DiskContent(<<2, 1>>)
    /\ pc = [w \in Workers |-> "idle"]
    /\ widx = [w \in Workers |-> 0]
    /\ wimg = [w \in Workers |-> NoArray]
    /\ arrays = [a \in Workers |-> NoArray]
    /\ result = [w \in Workers |-> NoResult]
    /\ IdleEncode
    /\ IdleLoad

shared_array(w) == 1

\* np.array(mask) allocates a new array in every call: each call has its own.
fresh_array(w) == w

RunOn(stmts, arr) == [arr EXCEPT !.data = Last(Trace(stmts, arr.data))]

\* The caller has taken the last result and calls again. Lines 78-80:
\* img = np.array(Image.open(self.img_list[idx]).resize(self.img_size)).
OpenImage(w) ==
    /\ pc[w] = "idle"
    /\ \E idx \in 0..(Len(dataset.img_list) - 1) :
           /\ widx' = [widx EXCEPT ![w] = idx]
           /\ wimg' = [wimg EXCEPT ![w] =
                          np_array_rgb(resize(open(dataset.img_list[idx + 1]), dataset.img_size))]
    /\ pc' = [pc EXCEPT ![w] = "img"]
    /\ result' = [result EXCEPT ![w] = NoResult]
    /\ UNCHANGED <<encVars, splitVars, dataset, loadVars, disk, arrays>>

\* Lines 82-84: mask = np.array(Image.open(self.mask_list[idx]).convert('L').resize(...)).
OpenMask(w) ==
    /\ pc[w] = "img"
    /\ LET path == dataset.mask_list[widx[w] + 1]
       IN arrays' = [arrays EXCEPT ![fresh_array(w)] =
                        np_array_gray(resize(open(path), dataset.img_size), disk[path[2]])]
    /\ pc' = [pc EXCEPT ![w] = "mask"]
    /\ UNCHANGED <<encVars, splitVars, dataset, loadVars, disk, widx, wimg, result>>

\* Lines 96-97 of encode_segmap, on the call's array.
VoidLoop(w) ==
    /\ pc[w] = "mask"
    /\ arrays' = [arrays EXCEPT ![fresh_array(w)] = RunOn(VoidPass(LabelsOf(dataset)), @)]
    /\ pc' = [pc EXCEPT ![w] = "void"]
    /\ UNCHANGED <<encVars, splitVars, dataset, loadVars, disk, widx, wimg, result>>

\* Lines 98-99.
ValidLoop(w) ==
    /\ pc[w] = "void"
    /\ arrays' = [arrays EXCEPT ![fresh_array(w)] = RunOn(ValidPass(LabelsOf(dataset)), @)]
    /\ pc' = [pc EXCEPT ![w] = "valid"]
    /\ UNCHANGED <<encVars, splitVars, dataset, loadVars, disk, widx, wimg, result>>

\* Line 101.
ExtraIdxs(w) ==
    /\ pc[w] = "valid"
    /\ arrays' = [arrays EXCEPT ![fresh_array(w)] = RunOn(ExtraPass, @)]
    /\ pc' = [pc EXCEPT ![w] = "extra"]
    /\ UNCHANGED <<encVars, splitVars, dataset, loadVars, disk, widx, wimg, result>>

\* Lines 87-90: the transform of img, and return img, mask; the locals end here.
Return(w) ==
    /\ pc[w] = "extra"
    /\ result' = [result EXCEPT ![w] =
                     [idx |-> widx[w],
                      img |-> apply_transform(dataset.transform, wimg[w]),
                      mask |-> arrays[fresh_array(w)]]]
    /\ pc' = [pc EXCEPT ![w] = "idle"]
    /\ widx' = [widx EXCEPT ![w] = 0]
    /\ wimg' = [wimg EXCEPT ![w] = NoArray]
    /\ UNCHANGED <<encVars, splitVars, dataset, loadVars, disk, arrays>>

NextWorkers ==
    \E w \in Workers :
        \/ OpenImage(w)
        \/ OpenMask(w)
        \/ VoidLoop(w)
        \/ ValidLoop(w)
        \/ ExtraIdxs(w)
        \/ Return(w)

SpecWorkers == InitWorkers /\ [][NextWorkers]_vars

\* What the call returns when it runs alone.
Alone(idx) == getitem(dataset, idx, disk[dataset.mask_list[idx + 1][2]])

ResultsAsAlone ==
    \A w \in Workers :
        result[w] # NoResult =>
            <<result[w].img, result[w].mask>> = Alone(result[w].idx)

\* The dataset object is as __init__ built it: paths, class map, label sets, size.
DatasetAsBuilt ==
    /\ dataset \in WorkerDatasets
    /\ \A ds \in WorkerDatasets : ds.split = dataset.split => ds = dataset

\* C8: however the workers' calls interleave, the dataset object stays as it was
\* built and every call returns what it returns when run alone.
C8_WorkersIndependent == ResultsAsAlone /\ DatasetAsBuilt

C8_Witness ==
    /\ pc[1] = "idle"
    /\ pc[2] = "valid"
    /\ arrays[1] # NoArray
    /\ result[1] # NoResult
    /\ result[1].idx # widx[2]
    /\ result[1].mask.data # arrays[2].data
    /\ result[1].mask.data # disk[dataset.mask_list[result[1].idx + 1][2]]

====
